---- MODULE Spec2Model ----
(***************************************************************************)
(* Bitcoin block-header and Merkle-root verification (common/src/lib.rs)   *)
(* and the guest program that asserts it (methods/guest/src/main.rs).      *)
(*                                                                         *)
(* Representation.  A byte is a number in 0..255 and a byte array is a     *)
(* sequence of bytes.  A fixed-width unsigned integer (u32, u128) is the   *)
(* sequence of its bits, least significant bit first, so that widths up to *)
(* 128 bits keep every bit.  An i32 is an integer.  U256(u128, u128) is    *)
(* the pair <<high, low>>, fields .0 and .1 of the tuple struct.           *)
(***************************************************************************)
EXTENDS Integers, Sequences, FiniteSets, TLC

VARIABLES op, arg, ret

vars == <<op, arg, ret>>

(***************************************************************************)
(* Bounds of the model.                                                    *)
(***************************************************************************)
\* longest leaf sequence handed to calculate_merkle_root
MaxLeaves == 5
\* nonces 0 .. NumNonces-1 are tried besides the genesis nonce
NumNonces == 3

(***************************************************************************)
(* Primitive integer operations of the language, on bit sequences.         *)
(***************************************************************************)
Byte == 0..255

\* the sequence <<f[1], ..., f[n]>> of a function f on 1..n, as a tuple
AsSeq(f) == f \o <<>>

\* k zero bits (or zero bytes)
Zeros(k) == AsSeq([i \in 1..k |-> 0])

\* the w-bit unsigned integer of value n (n below 2^31)
Bits(n, w) == AsSeq([i \in 1..w |-> IF i > 31 THEN 0 ELSE (n \div (2^(i-1))) % 2])

RECURSIVE ValFrom(_, _)
ValFrom(b, i) == IF i > Len(b) \/ i > 31 THEN 0 ELSE b[i] * (2^(i-1)) + ValFrom(b, i+1)

\* the value of a bit sequence whose bits from 2^31 up are zero
Val(b) == ValFrom(b, 1)

\* x << k for k below the width: the bits moved past the top are dropped
Shl(x, k) == SubSeq(Zeros(k) \o x, 1, Len(x))

\* x >> k for k below the width
Shr(x, k) == SubSeq(x \o Zeros(k), k + 1, k + Len(x))

\* x.wrapping_shr(k): the shift amount is taken modulo the width
WrappingShr(x, k) == Shr(x, k % Len(x))

\* x & y
BitAnd(x, y) == AsSeq([i \in 1..Len(x) |-> x[i] * y[i]])

\* x < y on unsigned integers of one width
Lt(x, y) == \E i \in 1..Len(x) : /\ x[i] < y[i]
                                 /\ \A j \in (i+1)..Len(x) : x[j] = y[j]

\* x <= y
Le(x, y) == x = y \/ Lt(x, y)

RECURSIVE AddFrom(_, _, _, _, _)
\* addition with carry, sixteen bits at a time: k is the position of the first
\* bit of the current group, c the carry into it
AddFrom(x, y, k, c, acc) ==
    IF k > Len(x) THEN Append(acc, c)
    ELSE LET s == Val(SubSeq(x, k, k + 15)) + Val(SubSeq(y, k, k + 15)) + c
         IN  AddFrom(x, y, k + 16, s \div 65536, acc \o Bits(s % 65536, 16))

\* x + y with its carry out: Len(x)+1 bits (the width is a multiple of 16)
Sum(x, y) == AddFrom(x, y, 1, 0, <<>>)

\* x + y overflows the width
AddOverflows(x, y) == Sum(x, y)[Len(x)+1] = 1

\* x + y within the width
WrappingAdd(x, y) == SubSeq(Sum(x, y), 1, Len(x))

\* widening conversion of an unsigned integer (Into<u128>)
Widen(x, w) == x \o Zeros(w - Len(x))

\* uN::from_le_bytes: byte k holds bits 8k .. 8k+7
UIntFromLeBytes(a) ==
    AsSeq([i \in 1..(8 * Len(a)) |-> (a[((i-1) \div 8) + 1] \div (2^((i-1) % 8))) % 2])

\* uN::to_le_bytes
UIntToLeBytes(x) ==
    AsSeq([k \in 1..(Len(x) \div 8) |->
            x[8*k-7] + 2*x[8*k-6] + 4*x[8*k-5] + 8*x[8*k-4]
            + 16*x[8*k-3] + 32*x[8*k-2] + 64*x[8*k-1] + 128*x[8*k]])

\* i32::to_le_bytes: two's complement
I32ToLeBytes(v) ==
    LET u == IF v >= 0 THEN v ELSE (v + 2147483647) + 1
        top == IF v >= 0 THEN 0 ELSE 128
    IN  <<u % 256, (u \div 256) % 256, (u \div 65536) % 256, (u \div 16777216) + top>>

\* a.reverse() on an array
Reverse(a) == AsSeq([i \in 1..Len(a) |-> a[Len(a) + 1 - i]])

\* the u32 with top byte e and low three bytes m
U32(e, m) == Bits(m, 24) \o Bits(e, 8)

(***************************************************************************)
(* Literals of the source (hex::decode of the string literals).            *)
(***************************************************************************)
GenesisMerkleRootHex ==
    <<
       \h3b, \ha3, \hed, \hfd, \h7a, \h7b, \h12, \hb2, \h7a, \hc7, \h2c, \h3e, \h67, \h76, \h8f, \h61,
       \h7f, \hc8, \h1b, \hc3, \h88, \h8a, \h51, \h32, \h3a, \h9f, \hb8, \haa, \h4b, \h1e, \h5e, \h4a >>

GenesisHashHex ==
    <<
       \h00, \h00, \h00, \h00, \h00, \h19, \hd6, \h68, \h9c, \h08, \h5a, \he1, \h65, \h83, \h1e, \h93,
       \h4f, \hf7, \h63, \hae, \h46, \ha2, \ha6, \hc1, \h72, \hb3, \hf1, \hb6, \h0a, \h8c, \he2, \h6f >>

Block1MerkleRootHex ==
    <<
       \h0e, \h3e, \h23, \h57, \he8, \h06, \hb6, \hcd, \hb1, \hf7, \h0b, \h54, \hc3, \ha3, \ha1, \h7b,
       \h67, \h14, \hee, \h1f, \h0e, \h68, \hbe, \hbb, \h44, \ha7, \h4b, \h1e, \hfd, \h51, \h20, \h98 >>

Block1TxHex ==
    <<
       \h01, \h00, \h00, \h00, \h01, \h00, \h00, \h00, \h00, \h00, \h00, \h00, \h00, \h00, \h00, \h00,
       \h00, \h00, \h00, \h00, \h00, \h00, \h00, \h00, \h00, \h00, \h00, \h00, \h00, \h00, \h00, \h00,
       \h00, \h00, \h00, \h00, \h00, \hff, \hff, \hff, \hff, \h07, \h04, \hff, \hff, \h00, \h1d, \h01,
       \h04, \hff, \hff, \hff, \hff, \h01, \h00, \hf2, \h05, \h2a, \h01, \h00, \h00, \h00, \h43, \h41,
       \h04, \h96, \hb5, \h38, \he8, \h53, \h51, \h9c, \h72, \h6a, \h2c, \h91, \he6, \h1e, \hc1, \h16,
       \h00, \hae, \h13, \h90, \h81, \h3a, \h62, \h7c, \h66, \hfb, \h8b, \he7, \h94, \h7b, \he6, \h3c,
       \h52, \hda, \h75, \h89, \h37, \h95, \h15, \hd4, \he0, \ha6, \h04, \hf8, \h14, \h17, \h81, \he6,
       \h22, \h94, \h72, \h11, \h66, \hbf, \h62, \h1e, \h73, \ha8, \h2c, \hbf, \h23, \h42, \hc8, \h58,
       \hee, \hac, \h00, \h00, \h00, \h00 >>

GuestExpectedHex ==
    <<
       \h00, \h00, \h00, \h00, \h83, \h9a, \h8e, \h68, \h86, \hab, \h59, \h51, \hd7, \h6f, \h41, \h14,
       \h75, \h42, \h8a, \hfc, \h90, \h94, \h7e, \he3, \h20, \h16, \h1b, \hbf, \h18, \heb, \h60, \h48 >>

(***************************************************************************)
(* sha256d::Hash::hash(..).to_byte_array() of the bitcoin_hashes crate.    *)
(* SHA-256 itself is not computed here.  The stand-in is a deterministic   *)
(* function from byte strings to 32-byte digests: on the three inputs      *)
(* below it returns the true double SHA-256 (two of them are asserted by   *)
(* tests::test_genesis and tests::test_txid), and every other input is     *)
(* folded onto one digest of DigestTable, whose entries lie on and around  *)
(* the decoded targets so that every outcome of the comparison in          *)
(* validate_target occurs.                                                 *)
(***************************************************************************)
\* the 80 bytes of the genesis header
GenesisHeaderBytes ==
    <<
       \h01, \h00, \h00, \h00, \h00, \h00, \h00, \h00, \h00, \h00, \h00, \h00, \h00, \h00, \h00, \h00,
       \h00, \h00, \h00, \h00, \h00, \h00, \h00, \h00, \h00, \h00, \h00, \h00, \h00, \h00, \h00, \h00,
       \h00, \h00, \h00, \h00, \h3b, \ha3, \hed, \hfd, \h7a, \h7b, \h12, \hb2, \h7a, \hc7, \h2c, \h3e,
       \h67, \h76, \h8f, \h61, \h7f, \hc8, \h1b, \hc3, \h88, \h8a, \h51, \h32, \h3a, \h9f, \hb8, \haa,
       \h4b, \h1e, \h5e, \h4a, \h29, \hab, \h5f, \h49, \hff, \hff, \h00, \h1d, \h1d, \hac, \h2b, \h7c >>

\* the 80 bytes of the header built by create_block_1
Block1HeaderBytes ==
    <<
       \h01, \h00, \h00, \h00, \h00, \h00, \h00, \h00, \h00, \h19, \hd6, \h68, \h9c, \h08, \h5a, \he1,
       \h65, \h83, \h1e, \h93, \h4f, \hf7, \h63, \hae, \h46, \ha2, \ha6, \hc1, \h72, \hb3, \hf1, \hb6,
       \h0a, \h8c, \he2, \h6f, \h0e, \h3e, \h23, \h57, \he8, \h06, \hb6, \hcd, \hb1, \hf7, \h0b, \h54,
       \hc3, \ha3, \ha1, \h7b, \h67, \h14, \hee, \h1f, \h0e, \h68, \hbe, \hbb, \h44, \ha7, \h4b, \h1e,
       \hfd, \h51, \h20, \h98, \h29, \hab, \h5f, \h49, \hff, \hff, \h00, \h1d, \h1d, \hac, \h2b, \h7c >>

\* double SHA-256 of Block1HeaderBytes
Block1HeaderDigest ==
    <<
       \h96, \h0f, \h7b, \h15, \h8a, \h59, \h46, \h0b, \h31, \h48, \haf, \hd5, \ha4, \h3e, \hb6, \h5f,
       \h08, \hae, \he5, \hca, \ha2, \h9f, \hcd, \h42, \h10, \h88, \h56, \h3a, \h16, \h0f, \h57, \h51 >>

Zero32 == Zeros(32)

ByteAt(k, v) == AsSeq([i \in 1..32 |-> IF i = k THEN v ELSE 0])

DigestTable ==
    << Zero32,
       ByteAt(1, 1),
       ByteAt(1, 2),
       AsSeq([i \in 1..32 |-> IF i \in {27, 28} THEN 255 ELSE 0]),
       AsSeq([i \in 1..32 |-> IF i \in {27, 28} THEN 255 ELSE IF i = 1 THEN 1 ELSE 0]),
       AsSeq([i \in 1..32 |-> IF i <= 26 \/ i = 28 THEN 255 ELSE IF i = 27 THEN 254 ELSE 0]),
       AsSeq([i \in 1..32 |-> IF i <= 16 THEN 255 ELSE 0]),
       ByteAt(17, 1),
       ByteAt(32, 128),
       Reverse(GenesisHashHex),
       Reverse(GuestExpectedHex),
       Reverse(Block1MerkleRootHex),
       Block1HeaderDigest,
       AsSeq([i \in 1..32 |-> IF i <= 2 THEN 255 ELSE IF i = 3 THEN 127 ELSE 0]),
       ByteAt(2, 1),
       AsSeq([i \in 1..32 |-> (7 * i + 3) % 256]) >>

\* byte i of x with weight w, nothing past the end
Term(x, i, w) == IF i <= Len(x) THEN w * x[i] ELSE 0

\* the eight bytes of x from position k on
Chunk(x, k) ==
    Term(x, k, 1) + Term(x, k + 1, 3) + Term(x, k + 2, 5) + Term(x, k + 3, 7)
    + Term(x, k + 4, 11) + Term(x, k + 5, 13) + Term(x, k + 6, 17) + Term(x, k + 7, 19)

RECURSIVE FoldFrom(_, _, _)
\* a checksum of x that depends on every byte and on its position
FoldFrom(x, k, acc) ==
    IF k > Len(x) THEN acc ELSE FoldFrom(x, k + 8, (acc * 33 + Chunk(x, k) + k) % 65521)

sha256d(x) ==
    IF x = GenesisHeaderBytes THEN Reverse(GenesisHashHex)
    ELSE IF x = Block1TxHex THEN Reverse(Block1MerkleRootHex)
    ELSE IF x = Block1HeaderBytes THEN Block1HeaderDigest
    ELSE DigestTable[(FoldFrom(x, 1, 37) % Len(DigestTable)) + 1]

(***************************************************************************)
(* common/src/lib.rs                                                       *)
(***************************************************************************)
\* the value of a call that panics
Panic == "panic"

\* Transaction::txid
txid(tx) == sha256d(tx.data)

RECURSIVE merkle_for_carry(_, _, _)
\* variant of merkle_for: an unpaired last hash is carried up unhashed
merkle_for_carry(hashes, i, new_level) ==
    IF i >= Len(hashes) THEN new_level
    ELSE IF i + 1 < Len(hashes)
         THEN merkle_for_carry(hashes, i + 2,
                               Append(new_level, sha256d(hashes[i+1] \o hashes[i+2])))
         ELSE merkle_for_carry(hashes, i + 2, Append(new_level, hashes[i+1]))

RECURSIVE merkle_for_zero_pad(_, _, _)
\* variant of merkle_for: an unpaired last hash is paired with 32 zero bytes
merkle_for_zero_pad(hashes, i, new_level) ==
    IF i >= Len(hashes) THEN new_level
    ELSE IF i + 1 < Len(hashes)
         THEN merkle_for_zero_pad(hashes, i + 2,
                                  Append(new_level, sha256d(hashes[i+1] \o hashes[i+2])))
         ELSE merkle_for_zero_pad(hashes, i + 2,
                                  Append(new_level, sha256d(hashes[i+1] \o Zero32)))

RECURSIVE merkle_for(_, _, _)
\* the for loop over i in (0..hashes.len()).step_by(2); i counts from 0
merkle_for(hashes, i, new_level) ==
    IF i >= Len(hashes) THEN new_level
    ELSE IF i + 1 < Len(hashes)
         THEN merkle_for(hashes, i + 2,
                         Append(new_level, sha256d(hashes[i+1] \o hashes[i+2])))
         ELSE merkle_for(hashes, i + 2,
                         Append(new_level, sha256d(hashes[i+1] \o hashes[i+1])))

RECURSIVE merkle_while(_)
\* the while loop and the final hashes[0], which panics on an empty vector
merkle_while(hashes) ==
    IF Len(hashes) > 1 THEN merkle_while(merkle_for(hashes, 0, <<>>))
    ELSE IF Len(hashes) = 0 THEN Panic
    ELSE hashes[1]

\* variant of calculate_merkle_root: a single hash is paired with itself too
calculate_merkle_root_hash_single(hashes) ==
    IF Len(hashes) = 1 THEN sha256d(hashes[1] \o hashes[1]) ELSE merkle_while(hashes)

\* fn calculate_merkle_root(hashes: Vec<[u8; 32]>)
calculate_merkle_root(hashes) ==
    IF Len(hashes) = 1 THEN hashes[1] ELSE merkle_while(hashes)

\* Block::calculate_merkle_root
Block_calculate_merkle_root(block) ==
    calculate_merkle_root(AsSeq([i \in 1..Len(block.txdata) |-> txid(block.txdata[i])]))

\* variant of serialize_block_header: the two hash fields change places
serialize_block_header_swapped(self) ==
    I32ToLeBytes(self.version)
    \o self.merkle_root
    \o self.prev_blockhash
    \o UIntToLeBytes(self.time)
    \o UIntToLeBytes(self.bits)
    \o UIntToLeBytes(self.nonce)

\* Header::serialize_block_header
serialize_block_header(self) ==
    I32ToLeBytes(self.version)
    \o self.prev_blockhash
    \o self.merkle_root
    \o UIntToLeBytes(self.time)
    \o UIntToLeBytes(self.bits)
    \o UIntToLeBytes(self.nonce)

\* Header::calculate_hash
calculate_hash(self) == sha256d(serialize_block_header(self))

\* Block::calculate_block_hash
calculate_block_hash(block) == calculate_hash(block.header)

Zero128 == Zeros(128)

\* U256::ZERO
ZERO == <<Zero128, Zero128>>

\* variant of split_in_half: the last 16 bytes come first
split_in_half_swapped(a) == <<SubSeq(a, 17, 32), SubSeq(a, 1, 16)>>

\* fn split_in_half(a: [u8; 32]) -> (high, low)
split_in_half(a) == <<SubSeq(a, 1, 16), SubSeq(a, 17, 32)>>

\* U256::from_le_bytes
from_le_bytes(a) ==
    LET halves == split_in_half(a)
        little == UIntFromLeBytes(halves[1])
        big    == UIntFromLeBytes(halves[2])
    IN  <<big, little>>

\* the checked addition of wrapping_shl overflows (a panic in a debug build)
wrapping_shl_overflows(self, rhs) ==
    LET shift == Val(BitAnd(rhs, Bits(255, 32)))
        bit_shift == shift % 128
    IN  /\ shift < 128
        /\ bit_shift > 0
        /\ AddOverflows(Shl(self[1], bit_shift), WrappingShr(self[2], 128 - bit_shift))

\* variant of wrapping_shl: the bits leaving low are not carried into high
wrapping_shl_no_carry(self, rhs) ==
    LET shift == Val(BitAnd(rhs, Bits(255, 32)))
        word_shift == shift >= 128
        bit_shift == shift % 128
    IN  IF word_shift
        THEN <<Shl(self[2], bit_shift), Zero128>>
        ELSE <<Shl(self[1], bit_shift), Shl(self[2], bit_shift)>>

\* U256::wrapping_shl
wrapping_shl(self, rhs) ==
    LET shift == Val(BitAnd(rhs, Bits(255, 32)))
        word_shift == shift >= 128
        bit_shift == shift % 128
    IN  IF word_shift
        THEN <<Shl(self[2], bit_shift), Zero128>>
        ELSE << IF bit_shift > 0
                THEN WrappingAdd(Shl(self[1], bit_shift),
                                 WrappingShr(self[2], 128 - bit_shift))
                ELSE Shl(self[1], bit_shift),
                Shl(self[2], bit_shift) >>

\* impl Shl<u32> for U256
shl(self, shift) == wrapping_shl(self, shift)

\* impl From<T: Into<u128>> for U256
U256_from(x) == <<Zero128, Widen(x, 128)>>

\* variant of U256_le: field .1 is compared first
U256_le_low_first(a, b) == Lt(a[2], b[2]) \/ (a[2] = b[2] /\ Le(a[1], b[1]))

\* derived PartialOrd/Ord of U256(u128, u128): field .0 first, then field .1
U256_le(a, b) == Lt(a[1], b[1]) \/ (a[1] = b[1] /\ Le(a[2], b[2]))

\* variant of target: the mantissa is not shifted right for exponents up to 3
target_unshifted(self) ==
    LET bits == self.bits
        unshifted_expt == Val(Shr(bits, 24))
        mant == BitAnd(bits, Bits(\hFFFFFF, 32))
        expt == IF unshifted_expt <= 3
                THEN Bits(0, 32)
                ELSE Bits(8 * (Val(Shr(bits, 24)) - 3), 32)
    IN  IF Lt(Bits(\h7FFFFF, 32), mant) THEN ZERO ELSE shl(U256_from(mant), expt)

\* Header::target
target(self) ==
    LET bits == self.bits
        unshifted_expt == Val(Shr(bits, 24))
        mant == IF unshifted_expt <= 3
                THEN Shr(BitAnd(bits, Bits(\hFFFFFF, 32)), 8 * (3 - unshifted_expt))
                ELSE BitAnd(bits, Bits(\hFFFFFF, 32))
        expt == IF unshifted_expt <= 3
                THEN Bits(0, 32)
                ELSE Bits(8 * (Val(Shr(bits, 24)) - 3), 32)
    IN  IF Lt(Bits(\h7FFFFF, 32), mant) THEN ZERO ELSE shl(U256_from(mant), expt)

\* Header::validate_target
validate_target(self) ==
    LET block_hash == calculate_hash(self)
        hash == from_le_bytes(block_hash)
    IN  U256_le(hash, target(self))

Header(version, prev_blockhash, merkle_root, time, bits, nonce) ==
    [version |-> version, prev_blockhash |-> prev_blockhash,
     merkle_root |-> merkle_root, time |-> time, bits |-> bits, nonce |-> nonce]

\* fn create_genesis_block_header
create_genesis_block_header ==
    Header(1, Zero32, GenesisMerkleRootHex,
           Bits(\h495fab29, 32), Bits(\h1d00ffff, 32), Bits(\h7c2bac1d, 32))

\* fn create_block_1
create_block_1 ==
    [header |-> Header(1, GenesisHashHex, Block1MerkleRootHex,
                       Bits(\h495fab29, 32), Bits(\h1d00ffff, 32), Bits(\h7c2bac1d, 32)),
     txdata |-> << [data |-> Block1TxHex] >>]

(***************************************************************************)
(* methods/guest/src/main.rs                                               *)
(***************************************************************************)
\* lines 21-23: merkle_root.reverse(); assert_eq!(header.merkle_root, merkle_root)
guest_merkle_assert(block) ==
    block.header.merkle_root = Reverse(Block_calculate_merkle_root(block))

\* fn main of the guest: the line of the first assertion that panics, or the
\* header committed to the journal
guest_main(block) ==
    LET header == block.header
        hash == Reverse(calculate_block_hash(block))
        at(line) == [outcome |-> Panic, line |-> line]
    IN  IF hash # GuestExpectedHex THEN at(18)
        ELSE IF header.version # 1 THEN at(19)
        ELSE IF header.time # Bits(\h495fab29, 32) THEN at(20)
        ELSE IF Block_calculate_merkle_root(block) = Panic THEN at(21)
        ELSE IF ~guest_merkle_assert(block) THEN at(23)
        ELSE IF Lt(header.bits, Bits(\h1d00ffff, 32)) THEN at(24)
        ELSE IF header.nonce # Bits(\h7c2bac1d, 32) THEN at(25)
        ELSE IF ~validate_target(header) THEN at(26)
        ELSE [outcome |-> "commit", journal |-> header]

(***************************************************************************)
(* mod tests of common/src/lib.rs: the line of the first failing           *)
(* assertion, or 0 when the test passes.                                   *)
(***************************************************************************)
test_merkle_root ==
    IF calculate_merkle_root(<<Block1MerkleRootHex>>) = Block1MerkleRootHex THEN 0 ELSE 261

\* lines 274-277: merkle_root.reverse(); assert_eq!(merkle_root, expected_merkle_root)
test_txid_merkle_assert(block) ==
    Reverse(Block_calculate_merkle_root(block)) = block.header.merkle_root

test_txid ==
    LET block == create_block_1
    IN  IF Reverse(txid(block.txdata[1])) # Block1MerkleRootHex THEN 273
        ELSE IF ~test_txid_merkle_assert(block) THEN 277
        ELSE 0

test_genesis ==
    IF Reverse(calculate_hash(create_genesis_block_header)) = GenesisHashHex THEN 0 ELSE 287

test_target ==
    IF validate_target(create_genesis_block_header) THEN 0 ELSE 293

(***************************************************************************)
(* The inputs the operations are run on.                                   *)
(***************************************************************************)
Ones128 == AsSeq([i \in 1..128 |-> 1])

U128Samples ==
    { Zero128, Bits(1, 128), Ones128, Shl(Bits(1, 128), 127), Bits(\hffff, 128),
      UIntFromLeBytes(AsSeq([i \in 1..16 |-> (37 * i + 11) % 256])) }

U256Samples == U128Samples \X U128Samples

ShiftSamples ==
    { Bits(n, 32) : n \in {0, 1, 7, 8, 64, 127, 128, 129, 200, 208, 248, 255,
                           256, 257, 383, 384, 511, 2016, 2147483647} }
    \cup { U32(255, \hffffff), U32(128, \h000081) }

ExptSamples == {0, 1, 2, 3, 4, 5, \h1d, \h20, \h21, \h22, \h23, \h24, \h80, \hff}

MantSamples == {0, 1, \h80, \h8000, \hffff, \h123456, \h7fffff,
                \h800000, \h800001, \h808080, \hffffff}

BitsSamples == { U32(e, m) : e \in ExptSamples, m \in MantSamples }

\* the bits values of the headers that are serialized and validated
HeaderBits ==
    { U32(\h1d, \hffff), U32(\h1d, \hfffe), U32(3, 1), U32(3, 2), U32(3, \h7fffff),
      U32(4, 1), U32(\h11, \h7fffff), U32(\h13, 1), U32(\h13, \h7fffff),
      U32(\h20, \h7fffff), U32(\h21, \hffff), U32(\h23, 1), U32(\hff, 1),
      U32(3, \h800000), U32(2, \h800000), U32(\h1d, \h80ffff) }

Nonces == { Bits(\h7c2bac1d, 32) } \cup { Bits(n, 32) : n \in 0..(NumNonces - 1) }

Times == { Bits(\h495fab29, 32), U32(\hff, \hfffffe) }

Versions == {1, 2, -1, (-2147483647) - 1}

Hashes32 == { Zero32, GenesisHashHex, GenesisMerkleRootHex, Block1MerkleRootHex,
              Reverse(Block1MerkleRootHex) }

Headers ==
    { Header(v, p, m, t, b, n) :
        v \in {1, 2}, p \in {Zero32, GenesisHashHex},
        m \in {GenesisMerkleRootHex, Block1MerkleRootHex, Reverse(Block1MerkleRootHex)},
        t \in Times, b \in HeaderBits, n \in Nonces }

SerializeHeaders ==
    { Header(v, p, m, t, b, n) :
        v \in Versions, p \in {Zero32, GenesisHashHex}, m \in {GenesisMerkleRootHex},
        t \in Times, b \in {U32(\h1d, \hffff), U32(\hff, \h800001)}, n \in Nonces }
    \cup { Header(1, p, m, Bits(\h495fab29, 32), Bits(\h1d00ffff, 32), Bits(\h7c2bac1d, 32)) :
             p \in Hashes32, m \in Hashes32 }

Buffers == { DigestTable[i] : i \in 1..Len(DigestTable) }
           \cup Hashes32
           \cup { AsSeq([i \in 1..32 |-> IF i <= 16 THEN 0 ELSE 255]),
                  AsSeq([i \in 1..32 |-> 255]),
                  AsSeq([i \in 1..32 |-> IF i = 16 THEN 128 ELSE 0]) }
           \cup { AsSeq([i \in 1..32 |-> (i * i + 5 * d) % 256]) : d \in 0..4 }

LeafValues == { Reverse(Block1MerkleRootHex), GenesisMerkleRootHex, Zero32 }

RECURSIVE SeqsUpTo(_, _)
SeqsUpTo(S, n) ==
    IF n = 0 THEN { <<>> }
    ELSE LET shorter == SeqsUpTo(S, n - 1)
         IN  shorter \cup { Append(s, x) : s \in { t \in shorter : Len(t) = n - 1 }, x \in S }

LeafSeqs == SeqsUpTo(LeafValues, MaxLeaves)

TxDatas == { <<>>, << [data |-> Block1TxHex] >>,
             << [data |-> Block1TxHex], [data |-> Block1TxHex] >> }

Blocks == { [header |-> h, txdata |-> t] : h \in Headers, t \in TxDatas }

\* the builds of the crate: overflow checks on (debug) or off (release)
Builds == {"debug", "release"}

(***************************************************************************)
(* The state machine: one action per operation.  Every operation is a pure *)
(* function of its input, so a call starts from the idle state and leaves  *)
(* its record: op names the operation, arg its input and ret its result.   *)
(* Return hands the result back and the caller is idle again.              *)
(***************************************************************************)
Idle == "idle"

Init == op = Idle /\ arg = <<>> /\ ret = <<>>

CalculateMerkleRoot ==
    \E hashes \in LeafSeqs :
        /\ op = Idle
        /\ op' = "calculate_merkle_root"
        /\ arg' = hashes
        /\ ret' = calculate_merkle_root(hashes)

SerializeBlockHeader ==
    \E h \in SerializeHeaders :
        /\ op = Idle
        /\ op' = "serialize_block_header"
        /\ arg' = h
        /\ ret' = serialize_block_header(h)

Target ==
    \E b \in BitsSamples :
        /\ op = Idle
        /\ op' = "target"
        /\ arg' = b
        /\ ret' = target(Header(1, Zero32, Zero32, Bits(0, 32), b, Bits(0, 32)))

ValidateTarget ==
    \E h \in Headers :
        /\ op = Idle
        /\ op' = "validate_target"
        /\ arg' = h
        /\ ret' = validate_target(h)

FromLeBytes ==
    \E a \in Buffers :
        /\ op = Idle
        /\ op' = "from_le_bytes"
        /\ arg' = a
        /\ ret' = from_le_bytes(a)

WrappingShl ==
    \E v \in U256Samples, n \in ShiftSamples, build \in Builds :
        /\ op = Idle
        /\ op' = "wrapping_shl"
        /\ arg' = <<v, n>>
        /\ ret' = IF build = "debug" /\ wrapping_shl_overflows(v, n)
                  THEN Panic
                  ELSE wrapping_shl(v, n)

GuestMain ==
    \E block \in Blocks :
        /\ op = Idle
        /\ op' = "guest_main"
        /\ arg' = block
        /\ ret' = guest_main(block)

Tests ==
    \E t \in {"test_merkle_root", "test_txid", "test_genesis", "test_target"} :
        /\ op = Idle
        /\ op' = t
        /\ arg' = <<>>
        /\ ret' = CASE t = "test_merkle_root" -> test_merkle_root
                    [] t = "test_txid" -> test_txid
                    [] t = "test_genesis" -> test_genesis
                    [] t = "test_target" -> test_target

Return ==
    /\ op # Idle
    /\ op' = Idle
    /\ arg' = <<>>
    /\ ret' = <<>>

Next ==
    \/ Tests
    \/ CalculateMerkleRoot
    \/ SerializeBlockHeader
    \/ Target
    \/ ValidateTarget
    \/ FromLeBytes
    \/ WrappingShl
    \/ GuestMain
    \/ Return

Spec == Init /\ [][Next]_vars

(***************************************************************************)
(* Reference notions the properties are stated with.                       *)
(***************************************************************************)
\* a <= b for two byte strings of one length read as little-endian numbers:
\* the most significant byte, the last one, decides first
NumLeLe(a, b) ==
    \/ a = b
    \/ \E i \in 1..Len(a) : /\ a[i] < b[i]
                            /\ \A j \in (i+1)..Len(a) : a[j] = b[j]

\* the 32 little-endian bytes of the number high * 2^128 + low
ToLeBytes256(u) == UIntToLeBytes(u[2]) \o UIntToLeBytes(u[1])

\* exponent byte and 3-byte mantissa of a bits value
ExptOf(bits) == Val(SubSeq(bits, 25, 32))

MantOf(bits) == Val(SubSeq(bits, 1, 24))

\* the little-endian bytes of (m * 256^q) mod 2^256, for m below 2^24
TimesPow256(m, q) ==
    SubSeq(Zeros(q) \o <<m % 256, (m \div 256) % 256, m \div 65536>> \o Zeros(32), 1, 32)

\* C1: validate_target is TRUE exactly when the header hash, its 32 bytes
\* read without reversal as a little-endian 256-bit number, is less than or
\* equal to the target decoded from the header's bits; equality is accepted.
C1_ValidateTarget ==
    op = "validate_target" =>
        (ret <=> NumLeLe(calculate_hash(arg), ToLeBytes256(target(arg))))

\* a header whose hash equals its nonzero target exactly, and is accepted
C1_Witness ==
    /\ op = "validate_target"
    /\ ret = TRUE
    /\ calculate_hash(arg) = ToLeBytes256(target(arg))
    /\ target(arg) # ZERO

\* C2: whenever bit 0x800000 of the mantissa is set, whatever the exponent
\* byte, the decoded target is ZERO.
C2_SignBitGivesZero ==
    (op = "target" /\ MantOf(arg) >= \h800000) => ret = ZERO

\* C3: with a mantissa m <= 0x7FFFFF and exponent e, the target is m shifted
\* right by 8*(3-e) bits when e <= 3, and (m * 2^s) mod 2^256 with
\* s = (8*(e-3)) mod 256 when e > 3; bits 0x1d00ffff gives 0xffff * 2^208.
C3_TargetDecoding ==
    (op = "target" /\ MantOf(arg) <= \h7FFFFF) =>
        LET e == ExptOf(arg)
            m == MantOf(arg)
        IN  /\ e <= 3 => ret = <<Zero128, Bits(m \div (2^(8 * (3 - e))), 128)>>
            /\ e > 3 => ToLeBytes256(ret) = TimesPow256(m, ((8 * (e - 3)) % 256) \div 8)
            /\ arg = Bits(\h1d00ffff, 32) =>
                   ToLeBytes256(ret) = AsSeq([i \in 1..32 |-> IF i \in {27, 28} THEN 255 ELSE 0])

\* a positive mantissa shifted left so far that the shift amount wraps
C3_Witness ==
    /\ op = "target"
    /\ MantOf(arg) = \h7FFFFF
    /\ ExptOf(arg) = \h24
    /\ ret = <<Zero128, Bits(\h7FFFFF00, 128)>>

\* C4: wherever the repository checks the Merkle root (the guest, the block 1
\* test), the check passes exactly when the computed root equals
\* header.merkle_root byte for byte, neither side reversed.
C4_MerkleCheckUnreversed ==
    /\ (op = "guest_main" /\ ret.outcome = Panic /\ ret.line = 23) =>
           Block_calculate_merkle_root(arg) # arg.header.merkle_root
    /\ (op = "guest_main" /\ (ret.outcome = "commit" \/ ret.line > 23)) =>
           Block_calculate_merkle_root(arg) = arg.header.merkle_root
    /\ (op = "test_txid" /\ ret # 273) =>
           ((ret = 0) <=> Block_calculate_merkle_root(create_block_1)
                            = create_block_1.header.merkle_root)

\* one level of the reference reduction: ceil(k/2) hashes, the j-th the double
\* hash of hashes 2j and 2j+1 (counted from 0), the last one doubled when k is odd
RefLevel(level) ==
    LET k == Len(level)
    IN  AsSeq([j \in 1..((k + 1) \div 2) |->
                 sha256d(level[2*j - 1] \o level[IF 2*j <= k THEN 2*j ELSE 2*j - 1])])

RECURSIVE RefRoot(_)
\* the reference reduction, repeated until one hash remains
RefRoot(level) == IF Len(level) = 1 THEN level[1] ELSE RefRoot(RefLevel(level))

\* C5: for n >= 2 leaves calculate_merkle_root returns the result of the
\* reference reduction; for three leaves a, b, c it is H(H(a||b) || H(c||c)).
C5_MerkleReduction ==
    (op = "calculate_merkle_root" /\ Len(arg) >= 2) =>
        /\ ret = RefRoot(arg)
        /\ Len(arg) = 3 =>
               ret = sha256d(sha256d(arg[1] \o arg[2]) \o sha256d(arg[3] \o arg[3]))

\* three distinct leaves, whose root differs from the root of the first two
C5_Witness ==
    /\ op = "calculate_merkle_root"
    /\ Len(arg) = 3
    /\ arg[1] # arg[2] /\ arg[2] # arg[3] /\ arg[1] # arg[3]
    /\ ret = RefRoot(arg)
    /\ ret # sha256d(arg[1] \o arg[2])

\* C6: the root of a one-element sequence is that element, unhashed.
C6_SingleLeaf ==
    (op = "calculate_merkle_root" /\ Len(arg) = 1) => ret = arg[1]

\* the transaction id of block 1 as the only leaf
C6_Witness ==
    /\ op = "calculate_merkle_root"
    /\ arg = <<Reverse(Block1MerkleRootHex)>>
    /\ ret = Reverse(Block1MerkleRootHex)

\* the signed 32-bit value of four little-endian bytes
I32FromLeBytes(b) ==
    (b[4] - (IF b[4] >= 128 THEN 256 ELSE 0)) * 16777216 + b[3] * 65536 + b[2] * 256 + b[1]

\* the header read back from its 80-byte layout
ParseHeader(b) ==
    Header(I32FromLeBytes(SubSeq(b, 1, 4)),
           SubSeq(b, 5, 36),
           SubSeq(b, 37, 68),
           UIntFromLeBytes(SubSeq(b, 69, 72)),
           UIntFromLeBytes(SubSeq(b, 73, 76)),
           UIntFromLeBytes(SubSeq(b, 77, 80)))

\* C7: the serialization is exactly 80 bytes: version (little-endian, signed),
\* prev_blockhash and merkle_root verbatim, then time, bits and nonce
\* (little-endian); so the six fields can be read back from it and two
\* headers with the same bytes are equal.
C7_HeaderLayout ==
    op = "serialize_block_header" =>
        /\ Len(ret) = 80
        /\ \A i \in 1..80 : ret[i] \in Byte
        /\ ParseHeader(ret) = arg

\* a header with a negative version and a time above 2^31
C7_Witness ==
    /\ op = "serialize_block_header"
    /\ arg.version = -1
    /\ arg.time = U32(\hff, \hfffffe)
    /\ SubSeq(ret, 1, 4) = <<255, 255, 255, 255>>
    /\ SubSeq(ret, 69, 72) = <<254, 255, 255, 255>>

RECURSIVE TimesSmallFrom(_, _, _, _, _)
\* the digits of d * m in base 256, from digit i on with carry c, for m <= 128
TimesSmallFrom(d, m, i, c, acc) ==
    IF i > Len(d) THEN Append(acc, c)
    ELSE TimesSmallFrom(d, m, i + 1, (d[i] * m + c) \div 256, Append(acc, (d[i] * m + c) % 256))

\* the 32 little-endian bytes of (v * 2^k) mod 2^256, for k in 0..255
TimesPow2(v, k) ==
    SubSeq(Zeros(k \div 8) \o TimesSmallFrom(ToLeBytes256(v), 2^(k % 8), 1, 0, <<>>), 1, 32)

\* C8: wrapping_shl(v, n) is (v * 2^(n mod 256)) mod 2^256: unchanged for
\* n mod 256 = 0; for n mod 256 >= 128 the high half is low shifted left by
\* (n mod 256) - 128 and the low half is 0; no step overflows.
C8_WrappingShl ==
    op = "wrapping_shl" =>
        LET v == arg[1]
            k == Val(SubSeq(arg[2], 1, 8))
        IN  /\ ret # Panic
            /\ ToLeBytes256(ret) = TimesPow2(v, k)
            /\ k = 0 => ret = v
            /\ k >= 128 => ret = <<Shl(v[2], k - 128), Zero128>>

\* a shift below 128 that carries set bits of low into high
C8_Witness ==
    /\ op = "wrapping_shl"
    /\ arg[1] = <<Bits(1, 128), Ones128>>
    /\ arg[2] = Bits(383, 32)
    /\ ret = <<Ones128, Shl(Ones128, 127)>>

\* C9: from_le_bytes(a) has low = the little-endian value of a[0..16] and
\* high = that of a[16..32], so bit k of high * 2^128 + low is bit k mod 8 of
\* a[k div 8]; writing low then high back as little-endian bytes gives a.
C9_FromLeBytes ==
    op = "from_le_bytes" =>
        /\ \A k \in 0..127 : ret[2][k + 1] = (arg[(k \div 8) + 1] \div (2^(k % 8))) % 2
        /\ \A k \in 128..255 : ret[1][k - 127] = (arg[(k \div 8) + 1] \div (2^(k % 8))) % 2
        /\ UIntToLeBytes(ret[2]) \o UIntToLeBytes(ret[1]) = arg

\* a buffer whose two halves differ
C9_Witness ==
    /\ op = "from_le_bytes"
    /\ arg = ByteAt(17, 1)
    /\ ret = <<Bits(1, 128), Zero128>>

\* C10: for a leaf sequence L of odd length n >= 3, L followed by a copy of
\* its last leaf has the same root as L; for n = 1 the root of <<a>> is a
\* while the root of <<a, a>> is the double hash of a || a.
C10_DuplicateLeaf ==
    op = "calculate_merkle_root" =>
        /\ (Len(arg) >= 3 /\ Len(arg) % 2 = 1) =>
               calculate_merkle_root(Append(arg, arg[Len(arg)])) = ret
        /\ Len(arg) = 1 =>
               /\ ret = arg[1]
               /\ calculate_merkle_root(<<arg[1], arg[1]>>) = sha256d(arg[1] \o arg[1])

\* three leaves, the last unlike the second, and the same root with four
C10_Witness ==
    /\ op = "calculate_merkle_root"
    /\ Len(arg) = 3
    /\ arg[3] # arg[2]
    /\ calculate_merkle_root(<<arg[1], arg[2], arg[3], arg[3]>>) = ret
    /\ calculate_merkle_root(<<arg[1], arg[2]>>) # ret

====
